---- MODULE Spec2Model ----
(***************************************************************************)
(* Model of components/CanvasPaverPreview.vue: the canvas preview of a     *)
(* terrace tiled with pavers (straight, staggered, herringbone).           *)
(*                                                                         *)
(* JavaScript numbers are modelled as exact rationals [n, d] in lowest     *)
(* terms with d > 0; d = 0 stands for the non-finite results of a division *)
(* by zero (0/0 = NaN, x/0 = +-Infinity).  IEEE-754 rounding is not        *)
(* modelled.                                                               *)
(***************************************************************************)
EXTENDS Integers, Sequences, FiniteSets, TLC

VARIABLES
    props,             \* the five props of the component
    containerRect,     \* containerRef.value.getBoundingClientRect()
    devicePixelRatio,  \* window.devicePixelRatio
    phase,             \* "setup", "mounted" or "unmounted"
    canvas,            \* canvas.width and canvas.height
    ctxScale,          \* the scale factor of the context's transform
    surface,           \* the marks on the canvas bitmap, in device pixels
    paintedBefore,     \* the bitmap held marks when the last redraw began
    calls,             \* the calls made on the context since the canvas was last sized
    cands,             \* the candidate pavers of the last draw(), before clipping
    called,            \* the sub-algorithm the last draw() called, or "none"
    warned,            \* whether the last draw() called console.warn
    clipIn,            \* a paver and a plane given to the clipping on its own
    clipOut            \* the calls the clipping made on the context for them

compVars == <<props, containerRect, devicePixelRatio, phase, canvas, ctxScale,
              surface, paintedBefore, calls, cands, called, warned>>

vars == <<props, containerRect, devicePixelRatio, phase, canvas, ctxScale,
          surface, paintedBefore, calls, cands, called, warned, clipIn, clipOut>>

----------------------------------------------------------------------------
(* Bounds of the model *)

\* terraceWidth ranges over -1 .. MaxTerraceWidth metres
MaxTerraceWidth == 4
\* terraceHeight ranges over -1 .. MaxTerraceHeight metres
MaxTerraceHeight == 3
\* paverWidth and paverLength range over -1 .. MaxPaver metres
MaxPaver == 2
\* the coordinates given to the clipping on its own range over -1 .. MaxClip
MaxClip == 3

----------------------------------------------------------------------------
(* Numbers *)

Abs(i) == IF i < 0 THEN -i ELSE i

RECURSIVE GCD(_, _)
GCD(a, b) == IF b = 0 THEN a ELSE GCD(b, a % b)

\* the number n/d, in lowest terms
R(n, d) ==
    IF d = 0 THEN [n |-> IF n > 0 THEN 1 ELSE IF n < 0 THEN -1 ELSE 0, d |-> 0]
    ELSE LET g == GCD(Abs(n), Abs(d))
             s == IF d < 0 THEN -1 ELSE 1
         IN  [n |-> s * (n \div g), d |-> s * (d \div g)]

RInt(i) == [n |-> i, d |-> 1]

RAdd(a, b) == R(a.n * b.d + b.n * a.d, a.d * b.d)
RSub(a, b) == R(a.n * b.d - b.n * a.d, a.d * b.d)
RMul(a, b) == R(a.n * b.n, a.d * b.d)
RNeg(a)    == [n |-> -a.n, d |-> a.d]

\* a / b; a division by zero gives NaN or an infinity
RDiv(a, b) == IF b.n = 0 THEN R(a.n, 0) ELSE R(a.n * b.d, a.d * b.n)

\* comparisons of finite numbers
RLt(a, b) == a.n * b.d < b.n * a.d
RLe(a, b) == a.n * b.d <= b.n * a.d
RGe(a, b) == RLe(b, a)
RGt(a, b) == RLt(b, a)

\* Math.min, Math.max
RMin(a, b) == IF RLe(a, b) THEN a ELSE b
RMax(a, b) == IF RLe(a, b) THEN b ELSE a

\* Math.ceil: the least integer >= a; Math.ceil(NaN) is NaN
Ceil(a) == IF a.d = 0 THEN a ELSE RInt(-((-a.n) \div a.d))

\* the number of times "for (i = 0; i < nb; i++)" runs its body: i < NaN is
\* false.  nb is never +Infinity where draw() reaches a loop: the divisors
\* paverWidth and paverLength are > 0 there, and blockSizeX is 0 only when the
\* dividend is 0 too.
LoopCount(nb) == IF nb.d = 0 \/ nb.n <= 0 THEN 0 ELSE nb.n

RECURSIVE Concat(_)
Concat(ss) == IF ss = <<>> THEN <<>> ELSE Head(ss) \o Concat(Tail(ss))

Rect(x, y, width, height) == [x |-> x, y |-> y, width |-> width, height |-> height]

----------------------------------------------------------------------------
(* The canvas calls of one paver: beginPath, rect, fill, stroke *)

\* the calls of one paver with the contour stroked before the fill
PaintRectStrokeFirst(x, y, width, height) ==
    << [op |-> "beginPath"],
       [op |-> "rect", x |-> x, y |-> y, width |-> width, height |-> height],
       [op |-> "stroke", strokeStyle |-> "#333", lineWidth |-> 1],
       [op |-> "fill", fillStyle |-> "#aabbaa"] >>

PaintRect(x, y, width, height) ==
    << [op |-> "beginPath"],
       [op |-> "rect", x |-> x, y |-> y, width |-> width, height |-> height],
       [op |-> "fill", fillStyle |-> "#aabbaa"],
       [op |-> "stroke", strokeStyle |-> "#333", lineWidth |-> 1] >>

\* the discard test with the comparisons made strict: a paver that only touches
\* an edge is kept
OutsideStrict(x, y, xRight, yBottom, xMin, yMin, xMax, yMax) ==
    \/ RLt(xRight, xMin) \/ RGt(x, xMax)
    \/ RLt(yBottom, yMin) \/ RGt(y, yMax)

\* the discard test made to reject a paver that reaches over an edge too
OutsideOrOverhanging(x, y, xRight, yBottom, xMin, yMin, xMax, yMax) ==
    \/ RLt(x, xMin) \/ RGt(xRight, xMax)
    \/ RLt(y, yMin) \/ RGt(yBottom, yMax)

\* the discard test "if (xRight <= xMin || x >= xMax) ...; if (yBottom <= yMin || y >= yMax) ..."
Outside(x, y, xRight, yBottom, xMin, yMin, xMax, yMax) ==
    \/ RLe(xRight, xMin) \/ RGe(x, xMax)
    \/ RLe(yBottom, yMin) \/ RGe(y, yMax)

\* drawClippedRect with the clipped size measured from the unclipped corner
drawClippedRectFromCorner(x, y, width, height, xMin, yMin, xMax, yMax) ==
    LET xRight  == RAdd(x, width)
        yBottom == RAdd(y, height)
    IN  IF \/ RLe(xRight, xMin) \/ RGe(x, xMax)
           \/ RLe(yBottom, yMin) \/ RGe(y, yMax) THEN <<>>
        ELSE PaintRect(RMax(x, xMin), RMax(y, yMin),
                       RSub(RMin(xRight, xMax), x), RSub(RMin(yBottom, yMax), y))

\* drawClippedRect: the calls it makes on the context
drawClippedRect(x, y, width, height, xMin, yMin, xMax, yMax) ==
    LET xRight  == RAdd(x, width)
        yBottom == RAdd(y, height)
    IN  IF Outside(x, y, xRight, yBottom, xMin, yMin, xMax, yMax) THEN <<>>
        ELSE LET clippedX      == RMax(x, xMin)
                 clippedWidth  == RSub(RMin(xRight, xMax), clippedX)
                 clippedY      == RMax(y, yMin)
                 clippedHeight == RSub(RMin(yBottom, yMax), clippedY)
             IN  PaintRect(clippedX, clippedY, clippedWidth, clippedHeight)

\* the clipping of the loops with the clipped corner put on the plane's corner
\* (the Math.max of clippedX and clippedY left out)
rognageFromPlaneCorner(x, y, pWidthPx, pLengthPx, xMin, yMin, xMax, yMax) ==
    LET xRight  == RAdd(x, pWidthPx)
        yBottom == RAdd(y, pLengthPx)
    IN  IF Outside(x, y, xRight, yBottom, xMin, yMin, xMax, yMax) THEN <<>>
        ELSE PaintRect(xMin, yMin, RSub(RMin(xRight, xMax), xMin),
                       RSub(RMin(yBottom, yMax), yMin))

\* "Rognage": the clipping written out in the loops of drawStraight and
\* drawStaggered, for the candidate paver at (x, y)
rognage(x, y, pWidthPx, pLengthPx, xMin, yMin, xMax, yMax) ==
    LET xRight  == RAdd(x, pWidthPx)
        yBottom == RAdd(y, pLengthPx)
    IN  IF Outside(x, y, xRight, yBottom, xMin, yMin, xMax, yMax) THEN <<>>
        ELSE LET clippedX      == RMax(x, xMin)
                 clippedWidth  == RSub(RMin(xRight, xMax), clippedX)
                 clippedY      == RMax(y, yMin)
                 clippedHeight == RSub(RMin(yBottom, yMax), clippedY)
             IN  PaintRect(clippedX, clippedY, clippedWidth, clippedHeight)

\* "Rognage" as the earlier version of the loops has it: no discard test, every
\* candidate is clipped and painted
rognagePart002(x, y, pWidthPx, pLengthPx, xMin, yMin, xMax, yMax) ==
    LET xRight  == RAdd(x, pWidthPx)
        yBottom == RAdd(y, pLengthPx)
    IN  LET clippedX      == RMax(x, xMin)
            clippedWidth  == RSub(RMin(xRight, xMax), clippedX)
            clippedY      == RMax(y, yMin)
            clippedHeight == RSub(RMin(yBottom, yMax), clippedY)
        IN  PaintRect(clippedX, clippedY, clippedWidth, clippedHeight)

\* what one pass of a loop body leaves: its candidate pavers and its calls
Pass(cs, calls_) == [cands |-> cs, calls |-> calls_]

\* what the passes of a loop leave, in order
Collect(passes) ==
    [cands |-> Concat([k \in DOMAIN passes |-> passes[k].cands]),
     calls |-> Concat([k \in DOMAIN passes |-> passes[k].calls])]

----------------------------------------------------------------------------
(* 1) "straight": rows and columns, no offset *)

\* the loop body with the paver's two pixel sizes mixed up in the position
straightCellSwapped(row, col, pWidthPx, pLengthPx, xMin, yMin, xMax, yMax) ==
    Pass(<<Rect(RAdd(xMin, RMul(RInt(col), pLengthPx)),
                RAdd(yMin, RMul(RInt(row), pWidthPx)), pWidthPx, pLengthPx)>>,
         rognage(RAdd(xMin, RMul(RInt(col), pLengthPx)),
                 RAdd(yMin, RMul(RInt(row), pWidthPx)),
                 pWidthPx, pLengthPx, xMin, yMin, xMax, yMax))

\* one pass of the inner loop body: the candidate paver and the calls made for it
straightCell(row, col, pWidthPx, pLengthPx, xMin, yMin, xMax, yMax) ==
    Pass(<<Rect(RAdd(xMin, RMul(RInt(col), pWidthPx)),
                RAdd(yMin, RMul(RInt(row), pLengthPx)), pWidthPx, pLengthPx)>>,
         rognage(RAdd(xMin, RMul(RInt(col), pWidthPx)),
                 RAdd(yMin, RMul(RInt(row), pLengthPx)),
                 pWidthPx, pLengthPx, xMin, yMin, xMax, yMax))

\* the earlier version of drawStraight: the same loops without the discard test
straightCellPart002(row, col, pWidthPx, pLengthPx, xMin, yMin, xMax, yMax) ==
    Pass(<<Rect(RAdd(xMin, RMul(RInt(col), pWidthPx)),
                RAdd(yMin, RMul(RInt(row), pLengthPx)), pWidthPx, pLengthPx)>>,
         rognagePart002(RAdd(xMin, RMul(RInt(col), pWidthPx)),
                        RAdd(yMin, RMul(RInt(row), pLengthPx)),
                        pWidthPx, pLengthPx, xMin, yMin, xMax, yMax))

drawStraightPart002(p, xMin, yMin, xMax, yMax, scale) ==
    LET pWidthPx  == RMul(p.paverWidth, scale)
        pLengthPx == RMul(p.paverLength, scale)
        nbX       == LoopCount(Ceil(RDiv(p.terraceWidth, p.paverWidth)))
        nbY       == LoopCount(Ceil(RDiv(p.terraceHeight, p.paverLength)))
    IN  Collect([k \in 1..(nbX * nbY) |->
                    straightCellPart002((k - 1) \div nbX, (k - 1) % nbX,
                                        pWidthPx, pLengthPx, xMin, yMin, xMax, yMax)])

drawStraight(p, xMin, yMin, xMax, yMax, scale) ==
    LET pWidthPx  == RMul(p.paverWidth, scale)
        pLengthPx == RMul(p.paverLength, scale)
        nbX       == LoopCount(Ceil(RDiv(p.terraceWidth, p.paverWidth)))
        nbY       == LoopCount(Ceil(RDiv(p.terraceHeight, p.paverLength)))
    IN  Collect([k \in 1..(nbX * nbY) |->
                    straightCell((k - 1) \div nbX, (k - 1) % nbX,
                                 pWidthPx, pLengthPx, xMin, yMin, xMax, yMax)])

----------------------------------------------------------------------------
(* 2) "staggered": odd rows start half a paver to the left *)

\* the offset put on the even rows instead of the odd ones
staggeredOffsetXEvenRows(row, pWidthPx) ==
    IF row % 2 = 0 THEN RDiv(RNeg(pWidthPx), RInt(2)) ELSE RInt(0)

\* the odd rows shifted to the right instead of the left
staggeredOffsetXRight(row, pWidthPx) ==
    IF row % 2 # 0 THEN RDiv(pWidthPx, RInt(2)) ELSE RInt(0)

\* offsetX of a row
staggeredOffsetX(row, pWidthPx) ==
    IF row % 2 # 0 THEN RDiv(RNeg(pWidthPx), RInt(2)) ELSE RInt(0)

staggeredCell(row, col, pWidthPx, pLengthPx, xMin, yMin, xMax, yMax) ==
    Pass(<<Rect(RAdd(RAdd(xMin, RMul(RInt(col), pWidthPx)), staggeredOffsetX(row, pWidthPx)),
                RAdd(yMin, RMul(RInt(row), pLengthPx)), pWidthPx, pLengthPx)>>,
         rognage(RAdd(RAdd(xMin, RMul(RInt(col), pWidthPx)), staggeredOffsetX(row, pWidthPx)),
                 RAdd(yMin, RMul(RInt(row), pLengthPx)),
                 pWidthPx, pLengthPx, xMin, yMin, xMax, yMax))

\* the earlier version of drawStaggered: the same loops without the discard test
staggeredCellPart002(row, col, pWidthPx, pLengthPx, xMin, yMin, xMax, yMax) ==
    Pass(<<Rect(RAdd(RAdd(xMin, RMul(RInt(col), pWidthPx)), staggeredOffsetX(row, pWidthPx)),
                RAdd(yMin, RMul(RInt(row), pLengthPx)), pWidthPx, pLengthPx)>>,
         rognagePart002(RAdd(RAdd(xMin, RMul(RInt(col), pWidthPx)), staggeredOffsetX(row, pWidthPx)),
                        RAdd(yMin, RMul(RInt(row), pLengthPx)),
                        pWidthPx, pLengthPx, xMin, yMin, xMax, yMax))

drawStaggeredPart002(p, xMin, yMin, xMax, yMax, scale) ==
    LET pWidthPx  == RMul(p.paverWidth, scale)
        pLengthPx == RMul(p.paverLength, scale)
        nbX       == LoopCount(Ceil(RDiv(p.terraceWidth, p.paverWidth)))
        nbY       == LoopCount(Ceil(RDiv(p.terraceHeight, p.paverLength)))
    IN  Collect([k \in 1..(nbX * nbY) |->
                    staggeredCellPart002((k - 1) \div nbX, (k - 1) % nbX,
                                         pWidthPx, pLengthPx, xMin, yMin, xMax, yMax)])

drawStaggered(p, xMin, yMin, xMax, yMax, scale) ==
    LET pWidthPx  == RMul(p.paverWidth, scale)
        pLengthPx == RMul(p.paverLength, scale)
        nbX       == LoopCount(Ceil(RDiv(p.terraceWidth, p.paverWidth)))
        nbY       == LoopCount(Ceil(RDiv(p.terraceHeight, p.paverLength)))
    IN  Collect([k \in 1..(nbX * nbY) |->
                    staggeredCell((k - 1) \div nbX, (k - 1) % nbX,
                                  pWidthPx, pLengthPx, xMin, yMin, xMax, yMax)])

----------------------------------------------------------------------------
(* 3) "herringbone": blocks of two pavers, A horizontal and B vertical *)

\* pavé A of the block at (baseX, baseY)
herringboneTileA(baseX, baseY, pWidthPx, pLengthPx) ==
    Rect(baseX, baseY, pLengthPx, pWidthPx)

\* pavé B put on the block's corner, over pavé A
herringboneTileBAtBase(baseX, baseY, pWidthPx, pLengthPx) ==
    Rect(baseX, baseY, pWidthPx, pLengthPx)

\* pavé B of the block at (baseX, baseY)
herringboneTileB(baseX, baseY, pWidthPx, pLengthPx) ==
    Rect(RAdd(baseX, pLengthPx), baseY, pWidthPx, pLengthPx)

\* the two pavers of a block drawn one after the other
drawTwo(first, second, xMin, yMin, xMax, yMax) ==
    Pass(<<first, second>>,
         drawClippedRect(first.x, first.y, first.width, first.height, xMin, yMin, xMax, yMax)
         \o drawClippedRect(second.x, second.y, second.width, second.height,
                            xMin, yMin, xMax, yMax))

\* the loop body with B drawn before A
herringboneBlockBA(row, col, pWidthPx, pLengthPx, blockSizeX, blockSizeY, xMin, yMin, xMax, yMax) ==
    drawTwo(herringboneTileB(RAdd(xMin, RMul(RInt(col), blockSizeX)),
                             RAdd(yMin, RMul(RInt(row), blockSizeY)), pWidthPx, pLengthPx),
            herringboneTileA(RAdd(xMin, RMul(RInt(col), blockSizeX)),
                             RAdd(yMin, RMul(RInt(row), blockSizeY)), pWidthPx, pLengthPx),
            xMin, yMin, xMax, yMax)

\* one pass of the inner loop body: A is drawn, then B
herringboneBlock(row, col, pWidthPx, pLengthPx, blockSizeX, blockSizeY, xMin, yMin, xMax, yMax) ==
    drawTwo(herringboneTileA(RAdd(xMin, RMul(RInt(col), blockSizeX)),
                             RAdd(yMin, RMul(RInt(row), blockSizeY)), pWidthPx, pLengthPx),
            herringboneTileB(RAdd(xMin, RMul(RInt(col), blockSizeX)),
                             RAdd(yMin, RMul(RInt(row), blockSizeY)), pWidthPx, pLengthPx),
            xMin, yMin, xMax, yMax)

drawHerringbone(p, xMin, yMin, xMax, yMax, scale) ==
    LET pWidthPx   == RMul(p.paverWidth, scale)
        pLengthPx  == RMul(p.paverLength, scale)
        blockSizeX == RAdd(pLengthPx, pWidthPx)
        blockSizeY == RAdd(pLengthPx, pWidthPx)
        nbBlockX   == LoopCount(Ceil(RDiv(RMul(p.terraceWidth, scale), blockSizeX)))
        nbBlockY   == LoopCount(Ceil(RDiv(RMul(p.terraceHeight, scale), blockSizeY)))
    IN  Collect([k \in 1..(nbBlockX * nbBlockY) |->
                    herringboneBlock((k - 1) \div nbBlockX, (k - 1) % nbBlockX,
                                     pWidthPx, pLengthPx, blockSizeX, blockSizeY,
                                     xMin, yMin, xMax, yMax)])

----------------------------------------------------------------------------
(* draw() *)

padding == 20

\* the value of an omitted pattern prop
Undefined == "<undefined>"

\* "pattern = 'straight'" of the destructuring: the default applies to undefined only
\* the destructuring without its default: an omitted pattern stays undefined
patternWithoutDefault(p) == p.pattern

\* "pattern = 'straight'" in the destructuring of props
patternOrDefault(p) == IF p.pattern = Undefined THEN "straight" ELSE p.pattern

\* the check of the inputs with the paver's dimensions forgotten
invalidTerraceOnly(p) ==
    RLe(p.terraceWidth, RInt(0)) \/ RLe(p.terraceHeight, RInt(0))

\* "Vérif des entrées"
invalidInputs(p) ==
    \/ RLe(p.terraceWidth, RInt(0)) \/ RLe(p.terraceHeight, RInt(0))
    \/ RLe(p.paverWidth, RInt(0))   \/ RLe(p.paverLength, RInt(0))

availW(cv) == RInt(cv.width - 2 * padding)
availH(cv) == RInt(cv.height - 2 * padding)

\* the scale taken as the larger of the two ratios
scaleOfMax(p, cv) ==
    RMax(RDiv(availW(cv), p.terraceWidth), RDiv(availH(cv), p.terraceHeight))

\* scale = Math.min(scaleX, scaleY)
scaleOf(p, cv) ==
    LET scaleX == RDiv(availW(cv), p.terraceWidth)
        scaleY == RDiv(availH(cv), p.terraceHeight)
    IN  RMin(scaleX, scaleY)

xMinOf == RInt(padding)
yMinOf == RInt(padding)
xMaxOf(p, cv) == RAdd(xMinOf, RMul(p.terraceWidth, scaleOf(p, cv)))
yMaxOf(p, cv) == RAdd(yMinOf, RMul(p.terraceHeight, scaleOf(p, cv)))

\* ctx.clearRect(0, 0, canvas.width, canvas.height)
clearCall(cv) ==
    [op |-> "clearRect", x |-> RInt(0), y |-> RInt(0),
     width |-> RInt(cv.width), height |-> RInt(cv.height)]

\* the red outline of the terrace
outlineCall(p, cv) ==
    [op |-> "strokeRect", x |-> xMinOf, y |-> yMinOf,
     width  |-> RMul(p.terraceWidth, scaleOf(p, cv)),
     height |-> RMul(p.terraceHeight, scaleOf(p, cv)),
     strokeStyle |-> "red", lineWidth |-> 2]

\* what a sub-algorithm leaves, with its name
Ran(name, out) ==
    [called |-> name, warned |-> FALSE, cands |-> out.cands, calls |-> out.calls]

\* the switch on the pattern: the sub-algorithm called, its candidates and its calls
dispatch(p, pattern, xMin, yMin, xMax, yMax, scale) ==
    CASE pattern = "straight" ->
           Ran("drawStraight", drawStraight(p, xMin, yMin, xMax, yMax, scale))
      [] pattern = "staggered" ->
           Ran("drawStaggered", drawStaggered(p, xMin, yMin, xMax, yMax, scale))
      [] pattern = "herringbone" ->
           Ran("drawHerringbone", drawHerringbone(p, xMin, yMin, xMax, yMax, scale))
      [] OTHER ->
           [called |-> "none", warned |-> TRUE, cands |-> <<>>, calls |-> <<>>]

\* the calls of draw() before the switch, followed by what the switch leaves
After(before, d) == [d EXCEPT !.calls = before \o @]

\* draw(): the calls made on the context, the candidate pavers, the sub-algorithm
\* called and whether console.warn was called
draw(p, cv) ==
    IF invalidInputs(p)
    THEN [called |-> "none", warned |-> FALSE, cands |-> <<>>, calls |-> <<clearCall(cv)>>]
    ELSE After(<<clearCall(cv), outlineCall(p, cv)>>,
               dispatch(p, patternOrDefault(p), xMinOf, yMinOf,
                        xMaxOf(p, cv), yMaxOf(p, cv), scaleOf(p, cv)))

----------------------------------------------------------------------------
(* The component *)

Patterns == {"straight", "staggered", "herringbone", "diagonal", Undefined}

TerraceWidths  == {RInt(k) : k \in -1..MaxTerraceWidth}
TerraceHeights == {RInt(k) : k \in -1..MaxTerraceHeight}
PaverSizes     == {RInt(k) : k \in -1..MaxPaver}

\* the container's size in CSS pixels (getBoundingClientRect) and the
\* window's devicePixelRatio, as the resize handler may find them
Screens ==
    { [width |-> 800, height |-> 600, dpr |-> 1],
      [width |-> 400, height |-> 300, dpr |-> 2],
      [width |-> 100, height |-> 200, dpr |-> 1],
      [width |-> 30,  height |-> 100, dpr |-> 1],
      [width |-> 20,  height |-> 50,  dpr |-> 2] }

\* nothing given to the clipping on its own
NoCall == [x |-> RInt(0), y |-> RInt(0), width |-> RInt(0), height |-> RInt(0),
           xMin |-> RInt(0), yMin |-> RInt(0), xMax |-> RInt(0), yMax |-> RInt(0)]

\* the mark that a strokeRect, or a rect that is then filled and stroked,
\* leaves on the bitmap under the transform scale(k, k)
Mark(c, k) ==
    [kind |-> c.op, x |-> RMul(RInt(k), c.x), y |-> RMul(RInt(k), c.y),
     width |-> RMul(RInt(k), c.width), height |-> RMul(RInt(k), c.height)]

\* the marks that the calls cs leave, in order
marks(cs, k) ==
    LET ps == SelectSeq(cs, LAMBDA c : c.op \in {"strokeRect", "rect"})
    IN  [i \in 1..Len(ps) |-> Mark(ps[i], k)]

\* "canvas.width = ...; canvas.height = ...": setting the size of a canvas
\* resets its bitmap to blank (and its context to the identity transform)
bitmapAfterSizing(sf) == <<>>

\* the part of mark m that is on the bitmap lies in the region that the
\* clearRect call c erases under the transform scale(k, k)
Erased(m, c, k, cv) ==
    LET left   == RMax(RMin(m.x, RAdd(m.x, m.width)), RInt(0))
        right  == RMin(RMax(m.x, RAdd(m.x, m.width)), RInt(cv.width))
        top    == RMax(RMin(m.y, RAdd(m.y, m.height)), RInt(0))
        bottom == RMin(RMax(m.y, RAdd(m.y, m.height)), RInt(cv.height))
    IN  \/ RGe(left, right) \/ RGe(top, bottom)
        \/ /\ RLe(RMul(RInt(k), c.x), left)
           /\ RLe(right, RMul(RInt(k), RAdd(c.x, c.width)))
           /\ RLe(RMul(RInt(k), c.y), top)
           /\ RLe(bottom, RMul(RInt(k), RAdd(c.y, c.height)))

\* ctx.clearRect: the marks that are left on the bitmap sf
clearRect(sf, c, k, cv) == SelectSeq(sf, LAMBDA m : ~Erased(m, c, k, cv))

\* a redraw that neither sizes the canvas nor clears it before painting
resizeCanvasAndDrawKeepingBitmap(p, rect, dpr) ==
    \E cv \in {[width |-> rect.width * dpr, height |-> rect.height * dpr]} :
      \E d \in {draw(p, cv)} :
        /\ canvas' = cv
        /\ ctxScale' = dpr
        /\ surface' = surface \o marks(d.calls, dpr)
        /\ paintedBefore' = (surface # <<>>)
        /\ calls' = d.calls
        /\ cands' = d.cands
        /\ called' = d.called
        /\ warned' = d.warned
        /\ UNCHANGED <<clipIn, clipOut>>

\* resizeCanvasAndDraw(), canvasRef and containerRef being set
resizeCanvasAndDraw(p, rect, dpr) ==
    \E cv \in {[width |-> rect.width * dpr, height |-> rect.height * dpr]} :
      \E d \in {draw(p, cv)} :
        /\ canvas' = cv
        /\ ctxScale' = dpr
        /\ surface' = clearRect(bitmapAfterSizing(surface), d.calls[1], dpr, cv)
                          \o marks(d.calls, dpr)
        /\ paintedBefore' = (surface # <<>>)
        /\ calls' = d.calls
        /\ cands' = d.cands
        /\ called' = d.called
        /\ warned' = d.warned
        /\ UNCHANGED <<clipIn, clipOut>>

Init ==
    /\ props \in [terraceWidth : TerraceWidths, terraceHeight : TerraceHeights,
                  paverWidth : PaverSizes, paverLength : PaverSizes,
                  pattern : Patterns]
    /\ \E s \in Screens :
          /\ containerRect = [width |-> s.width, height |-> s.height]
          /\ devicePixelRatio = s.dpr
    /\ phase = "setup"
    /\ canvas = [width |-> 300, height |-> 150]
    /\ ctxScale = 1
    /\ surface = <<>>
    /\ paintedBefore = FALSE
    /\ calls = <<>>
    /\ cands = <<>>
    /\ called = "none"
    /\ warned = FALSE
    /\ clipIn = NoCall
    /\ clipOut = <<>>

\* onMounted
Mounted ==
    /\ phase = "setup"
    /\ phase' = "mounted"
    /\ resizeCanvasAndDraw(props, containerRect, devicePixelRatio)
    /\ UNCHANGED <<props, containerRect, devicePixelRatio>>

\* the watcher of the five props
PropsChanged(np) ==
    /\ phase = "mounted"
    /\ np # props
    /\ props' = np
    /\ resizeCanvasAndDraw(np, containerRect, devicePixelRatio)
    /\ UNCHANGED <<containerRect, devicePixelRatio, phase>>

SetTerraceWidth  == \E v \in TerraceWidths  : PropsChanged([props EXCEPT !.terraceWidth = v])
SetTerraceHeight == \E v \in TerraceHeights : PropsChanged([props EXCEPT !.terraceHeight = v])
SetPaverWidth    == \E v \in PaverSizes     : PropsChanged([props EXCEPT !.paverWidth = v])
SetPaverLength   == \E v \in PaverSizes     : PropsChanged([props EXCEPT !.paverLength = v])
SetPattern       == \E v \in Patterns       : PropsChanged([props EXCEPT !.pattern = v])

\* the window's resize event
WindowResize ==
    /\ phase = "mounted"
    /\ \E s \in Screens :
          /\ containerRect' = [width |-> s.width, height |-> s.height]
          /\ devicePixelRatio' = s.dpr
          /\ resizeCanvasAndDraw(props, containerRect', s.dpr)
    /\ UNCHANGED <<props, phase>>

\* onBeforeUnmount
Unmounted ==
    /\ phase = "mounted"
    /\ phase' = "unmounted"
    /\ UNCHANGED <<props, containerRect, devicePixelRatio, canvas, ctxScale,
                   surface, paintedBefore, calls, cands, called, warned,
                   clipIn, clipOut>>

Next ==
    \/ Mounted
    \/ SetTerraceWidth
    \/ SetTerraceHeight
    \/ SetPaverWidth
    \/ SetPaverLength
    \/ SetPattern
    \/ WindowResize
    \/ Unmounted

Spec == Init /\ [][Next]_vars

----------------------------------------------------------------------------
(* The clipping on its own: any paver of positive size against any plane *)

ClipInputs ==
    { [x |-> RInt(x), y |-> RInt(y), width |-> RInt(w), height |-> RInt(h),
       xMin |-> RInt(x0), yMin |-> RInt(y0), xMax |-> RInt(x1), yMax |-> RInt(y1)] :
         x \in -1..MaxClip, y \in -1..MaxClip, w \in 1..MaxClip, h \in 1..MaxClip,
         x0 \in 0..1, y0 \in 0..1, x1 \in 2..MaxClip, y1 \in 2..MaxClip }

Pending == << [op |-> "pending"] >>

InitClip ==
    /\ props = [terraceWidth |-> RInt(0), terraceHeight |-> RInt(0),
                paverWidth |-> RInt(0), paverLength |-> RInt(0), pattern |-> Undefined]
    /\ containerRect = [width |-> 0, height |-> 0]
    /\ devicePixelRatio = 1
    /\ phase = "setup"
    /\ canvas = [width |-> 300, height |-> 150]
    /\ ctxScale = 1
    /\ surface = <<>>
    /\ paintedBefore = FALSE
    /\ calls = <<>>
    /\ cands = <<>>
    /\ called = "none"
    /\ warned = FALSE
    /\ clipIn \in ClipInputs
    /\ clipOut = Pending

\* the paver goes through drawClippedRect
ClipOne ==
    /\ clipOut = Pending
    /\ clipOut' = drawClippedRect(clipIn.x, clipIn.y, clipIn.width, clipIn.height,
                                  clipIn.xMin, clipIn.yMin, clipIn.xMax, clipIn.yMax)
    /\ UNCHANGED <<clipIn, compVars>>

\* the paver goes through the clipping written out in drawStraight and drawStaggered
RognageOne ==
    /\ clipOut = Pending
    /\ clipOut' = rognage(clipIn.x, clipIn.y, clipIn.width, clipIn.height,
                          clipIn.xMin, clipIn.yMin, clipIn.xMax, clipIn.yMax)
    /\ UNCHANGED <<clipIn, compVars>>

\* the rectangle that was painted is given to the clipping again, against the
\* same plane
ClipAgain ==
    /\ clipOut # Pending
    /\ Len(clipOut) = 4
    /\ clipIn' = [clipIn EXCEPT !.x = clipOut[2].x, !.y = clipOut[2].y,
                                !.width = clipOut[2].width, !.height = clipOut[2].height]
    /\ clipOut' = Pending
    /\ UNCHANGED compVars

NextClip ==
    \/ ClipOne
    \/ RognageOne
    \/ ClipAgain

SpecClip == InitClip /\ [][NextClip]_vars

----------------------------------------------------------------------------
(* What is observed of a run, and the vocabulary of the properties *)

\* the rectangles of the rect() calls among cs, in order
Painted(cs) ==
    LET rs == SelectSeq(cs, LAMBDA c : c.op = "rect")
    IN  [i \in 1..Len(rs) |-> Rect(rs[i].x, rs[i].y, rs[i].width, rs[i].height)]

\* the strokeRect() calls among cs, in order
Outlines(cs) == SelectSeq(cs, LAMBDA c : c.op = "strokeRect")

Range(f) == {f[i] : i \in DOMAIN f}

\* draw() has run
Drawn == phase # "setup"

W == props.terraceWidth
H == props.terraceHeight
w == props.paverWidth
l == props.paverLength

DimsPositive == W.n > 0 /\ H.n > 0 /\ w.n > 0 /\ l.n > 0

\* the usable extent of the viewport, Vw - 2p and Vh - 2p with p = 20
UsableW == canvas.width - 40
UsableH == canvas.height - 40

ValidInput == Drawn /\ DimsPositive /\ UsableW > 0 /\ UsableH > 0

\* s = min((Vw - 2p) / W, (Vh - 2p) / H), for a valid input
S ==
    IF UsableW * W.d * H.n <= UsableH * H.d * W.n
    THEN R(UsableW * W.d, W.n) ELSE R(UsableH * H.d, H.n)

\* the plane's output rectangle
X0 == RInt(20)
Y0 == RInt(20)
X1 == RAdd(X0, RMul(W, S))
Y1 == RAdd(Y0, RMul(H, S))

Right(r)  == RAdd(r.x, r.width)
Bottom(r) == RAdd(r.y, r.height)

InsidePlane(r) ==
    /\ RGe(r.x, X0) /\ RGe(r.y, Y0)
    /\ RLe(Right(r), X1) /\ RLe(Bottom(r), Y1)

PositiveSize(r) == r.width.n > 0 /\ r.height.n > 0

----------------------------------------------------------------------------
(* C1 *)

\* C1: for every valid input (plane and unit dimensions > 0, usable viewport
\* extent > 0) and whatever the pattern, every rectangle painted by draw() lies
\* within the plane's output rectangle (x >= x0, y >= y0, x + width <= x1,
\* y + height <= y1) and has width > 0 and height > 0.
C1_PaintedInsidePlane ==
    ValidInput =>
        \A r \in Range(Painted(calls)) : InsidePlane(r) /\ PositiveSize(r)

\* a herringbone draw in which one candidate was trimmed and another discarded
C1_Witness ==
    /\ ValidInput
    /\ called = "drawHerringbone"
    /\ Len(Painted(calls)) < Len(cands)
    /\ \E r \in Range(Painted(calls)) : r \notin Range(cands)

----------------------------------------------------------------------------
(* C2 *)

\* unit cells [i, i+1) x [j, j+1) covered by a rectangle with integer corners
Cells(x, y, right, bottom) ==
    {<<i, j>> \in (-1..(2 * MaxClip)) \X (-1..(2 * MaxClip)) :
        x <= i /\ i < right /\ y <= j /\ j < bottom}

\* C2: the clipper discards a candidate of positive size exactly when
\* right <= x0 or x >= x1 or bottom <= y0 or y >= y1, a candidate that only
\* touches an edge included; otherwise it emits (max(x,x0), max(y,y0),
\* min(right,x1) - max(x,x0), min(bottom,y1) - max(y,y0)), which has positive
\* width and height and covers exactly the points common to the candidate and
\* the plane.
C2_ClipperDecides ==
    clipOut # Pending =>
        LET a      == clipIn
            right  == a.x.n + a.width.n
            bottom == a.y.n + a.height.n
            x0     == a.xMin.n
            y0     == a.yMin.n
            x1     == a.xMax.n
            y1     == a.yMax.n
            max(i, j) == IF i >= j THEN i ELSE j
            min(i, j) == IF i <= j THEN i ELSE j
            out    == Painted(clipOut)
        IN  IF right <= x0 \/ a.x.n >= x1 \/ bottom <= y0 \/ a.y.n >= y1
            THEN clipOut = <<>>
            ELSE /\ Len(out) = 1
                 /\ Len(clipOut) = 4
                 /\ out[1] = Rect(RInt(max(a.x.n, x0)), RInt(max(a.y.n, y0)),
                                  RInt(min(right, x1) - max(a.x.n, x0)),
                                  RInt(min(bottom, y1) - max(a.y.n, y0)))
                 /\ PositiveSize(out[1])
                 /\ Cells(out[1].x.n, out[1].y.n,
                          out[1].x.n + out[1].width.n, out[1].y.n + out[1].height.n)
                      = Cells(a.x.n, a.y.n, right, bottom) \cap Cells(x0, y0, x1, y1)

\* a candidate that touches the plane's right edge from outside was discarded
C2_Witness ==
    /\ clipOut = <<>>
    /\ clipIn.x = clipIn.xMax
    /\ RLt(clipIn.y, clipIn.yMax) /\ RGt(RAdd(clipIn.y, clipIn.height), clipIn.yMin)

----------------------------------------------------------------------------
(* C3 *)

\* C3: if any of the plane's width and height and the unit's width and length
\* is <= 0, draw() paints no pattern rectangle, produces no candidate and calls
\* no sub-algorithm, whatever the other inputs, the pattern and the viewport.
C3_DegenerateDrawsNothing ==
    (Drawn /\ ~DimsPositive) =>
        /\ Painted(calls) = <<>>
        /\ cands = <<>>
        /\ called = "none"

\* a draw with a unit of width 0 and every other input valid
C3_Witness ==
    /\ Drawn
    /\ w.n = 0 /\ W.n > 0 /\ H.n > 0 /\ l.n > 0
    /\ UsableW > 0 /\ UsableH > 0
    /\ props.pattern = "staggered"

----------------------------------------------------------------------------
(* C4 *)

\* C4: if the usable viewport extent is not positive (Vw - 2p <= 0 or
\* Vh - 2p <= 0 with p = 20), nothing is drawn: neither the plane's outline nor
\* any pattern rectangle, and no sub-algorithm is called.
C4_UnusableViewportDrawsNothing ==
    (Drawn /\ (UsableW <= 0 \/ UsableH <= 0)) =>
        /\ Outlines(calls) = <<>>
        /\ Painted(calls) = <<>>
        /\ called = "none"

----------------------------------------------------------------------------
(* C5 *)

ClosedSet == {"straight", "staggered", "herringbone"}

\* C5: for every pattern string outside {straight, staggered, herringbone}
\* nothing is rendered, neither the outline nor any rectangle, and no
\* sub-algorithm is called in its place.
C5_UnknownPatternDrawsNothing ==
    (Drawn /\ props.pattern \notin ClosedSet /\ props.pattern # Undefined) =>
        /\ Outlines(calls) = <<>>
        /\ Painted(calls) = <<>>
        /\ called = "none"

----------------------------------------------------------------------------
(* C6 *)

\* C6: for every valid plane and viewport the outline stroked is the rectangle
\* (p, p, W*s, H*s) with p = 20 and s = min((Vw-2p)/W, (Vh-2p)/H): it has the
\* plane's aspect ratio, fits the usable viewport and fills it along one axis;
\* W = 4, H = 3, Vw = 800, Vh = 600 gives s = 560/3.
C6_Transform ==
    ValidInput =>
        LET o == Outlines(calls)
        IN  /\ Len(o) = 1
            /\ o[1].x = RInt(20) /\ o[1].y = RInt(20)
            /\ o[1].width = RMul(W, S) /\ o[1].height = RMul(H, S)
            /\ RMul(o[1].width, H) = RMul(o[1].height, W)
            /\ RLe(o[1].width, RInt(UsableW)) /\ RLe(o[1].height, RInt(UsableH))
            /\ o[1].width = RInt(UsableW) \/ o[1].height = RInt(UsableH)
            /\ (canvas = [width |-> 800, height |-> 600] /\ W = RInt(4) /\ H = RInt(3)) =>
                  /\ S = R(560, 3)
                  /\ o[1].width = R(2240, 3) /\ o[1].height = RInt(560)

\* the plane 4 x 3 drawn on the canvas 800 x 600
C6_Witness ==
    /\ ValidInput
    /\ canvas = [width |-> 800, height |-> 600]
    /\ W = RInt(4) /\ H = RInt(3)
    /\ Len(Outlines(calls)) = 1

----------------------------------------------------------------------------
(* The grids, for a valid input *)

\* ceil(a / b) for a >= 0 and b > 0
CeilDiv(a, b) == ((a.n * b.d) + (a.d * b.n) - 1) \div (a.d * b.n)

\* a is an integer multiple of b
Multiple(a, b) == (a.n * b.d) % (a.d * b.n) = 0

Pw == RMul(w, S)
Pl == RMul(l, S)
NbX == CeilDiv(W, w)
NbY == CeilDiv(H, l)

Times(k, a) == RMul(RInt(k), a)
Half(a) == R(a.n, 2 * a.d)

Overlap(r1, r2) ==
    /\ RLt(r1.x, Right(r2)) /\ RLt(r2.x, Right(r1))
    /\ RLt(r1.y, Bottom(r2)) /\ RLt(r2.y, Bottom(r1))

\* a candidate meets the plane in positive area
Meets(r) ==
    /\ RGt(Right(r), X0) /\ RLt(r.x, X1)
    /\ RGt(Bottom(r), Y0) /\ RLt(r.y, Y1)

\* the part of a candidate within the plane
Cut(r) ==
    LET cx == IF RLt(r.x, X0) THEN X0 ELSE r.x
        cy == IF RLt(r.y, Y0) THEN Y0 ELSE r.y
        cr == IF RLt(X1, Right(r)) THEN X1 ELSE Right(r)
        cb == IF RLt(Y1, Bottom(r)) THEN Y1 ELSE Bottom(r)
    IN  Rect(cx, cy, RSub(cr, cx), RSub(cb, cy))

----------------------------------------------------------------------------
(* C7 *)

\* C7: straight pattern: the candidates are exactly the nbX * nbY rectangles
\* (x0 + c*pw, y0 + r*pl, pw, pl), nbX = ceil(W/w), nbY = ceil(H/l), in
\* row-major order; when W is an integer multiple of w and H of l every
\* candidate is painted untrimmed, lies inside the plane, no two overlap and
\* their areas add up to the plane's (no gap); W = 4, H = 3, unit 1 x 1 gives
\* 12 untrimmed rectangles.
C7_Straight ==
    (ValidInput /\ called = "drawStraight") =>
        /\ Len(cands) = NbX * NbY
        /\ \A r \in 0..(NbY - 1), c \in 0..(NbX - 1) :
              cands[r * NbX + c + 1] =
                  Rect(RAdd(X0, Times(c, Pw)), RAdd(Y0, Times(r, Pl)), Pw, Pl)
        /\ (Multiple(W, w) /\ Multiple(H, l)) =>
              /\ Painted(calls) = cands
              /\ \A i \in DOMAIN cands : InsidePlane(cands[i])
              /\ \A i, j \in DOMAIN cands : i # j => ~Overlap(cands[i], cands[j])
              /\ Times(NbX * NbY, RMul(Pw, Pl)) = RMul(RSub(X1, X0), RSub(Y1, Y0))
        /\ (W = RInt(4) /\ H = RInt(3) /\ w = RInt(1) /\ l = RInt(1)) =>
              /\ Len(cands) = 12
              /\ Painted(calls) = cands

\* the plane 4 x 3 paved straight with units 1 x 1
C7_Witness ==
    /\ ValidInput
    /\ called = "drawStraight"
    /\ W = RInt(4) /\ H = RInt(3) /\ w = RInt(1) /\ l = RInt(1)
    /\ Len(Painted(calls)) = 12

----------------------------------------------------------------------------
(* C8 *)

\* the candidates of the staggered grid: odd rows shifted by -pw/2
StaggeredGrid ==
    /\ Len(cands) = NbX * NbY
    /\ Len(Painted(calls)) = NbX * NbY
    /\ \A r \in 0..(NbY - 1), c \in 0..(NbX - 1) :
          cands[r * NbX + c + 1] =
              Rect(RSub(RAdd(X0, Times(c, Pw)), IF r % 2 # 0 THEN Half(Pw) ELSE RInt(0)),
                   RAdd(Y0, Times(r, Pl)), Pw, Pl)

\* the rectangle painted for row r and column c of the staggered grid
StaggeredPainted(r, c) == Painted(calls)[r * NbX + c + 1]

\* C8 as stated: staggered pattern: the grid is that of straight with every
\* odd-indexed row shifted by -pw/2; the first-column rectangle painted in
\* every odd row starts at x0 and has width pw/2, and in every even row
\* starts at x0 and has the untrimmed width pw.
C8_FirstColumnAsStated ==
    (ValidInput /\ called = "drawStaggered") =>
        /\ StaggeredGrid
        /\ \A r \in 0..(NbY - 1) :
              /\ StaggeredPainted(r, 0).x = X0
              /\ StaggeredPainted(r, 0).width = IF r % 2 # 0 THEN Half(Pw) ELSE Pw

\* C8 amended: staggered pattern: the grid is that of straight with every
\* odd-indexed row shifted by -pw/2; the first-column rectangle painted in
\* every odd row starts at x0 and has width min(pw/2, x1 - x0), and in every
\* even row starts at x0 and has width min(pw, x1 - x0); these are pw/2 and
\* the untrimmed pw whenever the unit is not wider than the plane (w <= W).
C8_FirstColumn ==
    (ValidInput /\ called = "drawStaggered") =>
        /\ StaggeredGrid
        /\ \A r \in 0..(NbY - 1) :
              LET full == IF r % 2 # 0 THEN Half(Pw) ELSE Pw
                  room == RSub(X1, X0)
              IN  /\ StaggeredPainted(r, 0).x = X0
                  /\ StaggeredPainted(r, 0).width = IF RLe(full, room) THEN full ELSE room
                  /\ RLe(w, W) => StaggeredPainted(r, 0).width = full

\* a staggered draw with an odd row, whose first rectangle is half a unit wide
C8_Witness ==
    /\ ValidInput
    /\ called = "drawStaggered"
    /\ NbY >= 2 /\ NbX >= 2
    /\ StaggeredPainted(1, 0) = Rect(X0, RAdd(Y0, Pl), Half(Pw), Pl)

----------------------------------------------------------------------------
(* C9 *)

\* C9 as stated: staggered pattern: for every valid input, in every odd-indexed
\* row no painted rectangle reaches the plane's right boundary x1.
C9_GapAsStated ==
    (ValidInput /\ called = "drawStaggered") =>
        \A r \in 0..(NbY - 1), c \in 0..(NbX - 1) :
            r % 2 # 0 => RLt(Right(StaggeredPainted(r, c)), X1)

\* C9 amended: staggered pattern: an odd-indexed row leaves a gap at the right
\* edge exactly when (ceil(W/w) - 1/2) * w < W, which includes every W that is
\* an integer multiple of w (the gap is then pw/2 wide); otherwise the row's
\* last rectangle is clipped at x1 and the row reaches the right boundary.
C9_GapExactly ==
    (ValidInput /\ called = "drawStaggered") =>
        /\ Len(Painted(calls)) = NbX * NbY
        /\ \A r \in 0..(NbY - 1) :
              r % 2 # 0 =>
                 LET last  == StaggeredPainted(r, NbX - 1)
                     short == RLt(RSub(Times(NbX, w), Half(w)), W)
                 IN  /\ \A c \in 0..(NbX - 1) :
                          RLe(Right(StaggeredPainted(r, c)), Right(last))
                     /\ short <=> RLt(Right(last), X1)
                     /\ short => Right(last) = RSub(RAdd(X0, Times(NbX, Pw)), Half(Pw))
                     /\ ~short => Right(last) = X1
                     /\ Multiple(W, w) => RSub(X1, Right(last)) = Half(Pw)

\* a staggered draw whose odd row stops half a unit short of the right edge
C9_Witness ==
    /\ ValidInput
    /\ called = "drawStaggered"
    /\ NbY >= 2
    /\ Multiple(W, w)
    /\ RSub(X1, Right(StaggeredPainted(1, NbX - 1))) = Half(Pw)

----------------------------------------------------------------------------
(* C10 *)

Block == RAdd(Pl, Pw)
NbBlockX == CeilDiv(RMul(W, S), Block)
NbBlockY == CeilDiv(RMul(H, S), Block)

\* C10: herringbone pattern: with block = pl + pw on both axes,
\* nbBlockX = ceil(W*s/block) and nbBlockY = ceil(H*s/block), the block (r,c) at
\* (baseX, baseY) = (x0 + c*block, y0 + r*block) yields exactly two candidates,
\* A = (baseX, baseY, pl, pw) then B = (baseX + pl, baseY, pw, pl), B's left edge
\* being A's right edge; blocks come in row-major order, and the rectangles
\* painted are the candidates' parts within the plane in that same order.
C10_Herringbone ==
    (ValidInput /\ called = "drawHerringbone") =>
        /\ Len(cands) = 2 * NbBlockX * NbBlockY
        /\ \A r \in 0..(NbBlockY - 1), c \in 0..(NbBlockX - 1) :
              LET k     == r * NbBlockX + c
                  baseX == RAdd(X0, Times(c, Block))
                  baseY == RAdd(Y0, Times(r, Block))
                  A     == cands[2 * k + 1]
                  B     == cands[2 * k + 2]
              IN  /\ A = Rect(baseX, baseY, Pl, Pw)
                  /\ B = Rect(RAdd(baseX, Pl), baseY, Pw, Pl)
                  /\ B.x = Right(A)
        /\ LET kept == SelectSeq(cands, Meets)
           IN  Painted(calls) = [i \in 1..Len(kept) |-> Cut(kept[i])]

\* a herringbone draw of two rows of two blocks, one of whose tiles is discarded
C10_Witness ==
    /\ ValidInput
    /\ called = "drawHerringbone"
    /\ NbBlockX >= 2 /\ NbBlockY >= 2
    /\ Len(Painted(calls)) >= 4
    /\ Len(Painted(calls)) < Len(cands)

----------------------------------------------------------------------------
(* C11 *)

\* the candidate in clipIn and its plane, as integers
CandRight == clipIn.x.n + clipIn.width.n
CandBottom == clipIn.y.n + clipIn.height.n
CandInside ==
    /\ clipIn.xMin.n <= clipIn.x.n /\ CandRight <= clipIn.xMax.n
    /\ clipIn.yMin.n <= clipIn.y.n /\ CandBottom <= clipIn.yMax.n
CrossLeft == clipIn.x.n < clipIn.xMin.n /\ clipIn.xMin.n < CandRight
CrossRight == clipIn.x.n < clipIn.xMax.n /\ clipIn.xMax.n < CandRight
CrossTop == clipIn.y.n < clipIn.yMin.n /\ clipIn.yMin.n < CandBottom
CrossBottom == clipIn.y.n < clipIn.yMax.n /\ clipIn.yMax.n < CandBottom
WithinX == clipIn.xMin.n <= clipIn.x.n /\ CandRight <= clipIn.xMax.n
WithinY == clipIn.yMin.n <= clipIn.y.n /\ CandBottom <= clipIn.yMax.n
OnlyLeft == CrossLeft /\ ~CrossRight /\ WithinY
OnlyRight == CrossRight /\ ~CrossLeft /\ WithinY
OnlyTop == CrossTop /\ ~CrossBottom /\ WithinX
OnlyBottom == CrossBottom /\ ~CrossTop /\ WithinX
StraddlesOneEdge == OnlyLeft \/ OnlyRight \/ OnlyTop \/ OnlyBottom

\* the clipping has emitted one rectangle for the candidate in clipIn
Emitted == clipOut # Pending /\ Len(clipOut) = 4

\* what the emitted rectangle changes of the candidate
XMoved == clipOut[2].x # clipIn.x
YMoved == clipOut[2].y # clipIn.y
WidthReduced == RLt(clipOut[2].width, clipIn.width)
HeightReduced == RLt(clipOut[2].height, clipIn.height)
WidthKept == clipOut[2].width = clipIn.width
HeightKept == clipOut[2].height = clipIn.height

\* C11 as stated: a rectangle inside the plane is emitted unchanged, and a
\* rectangle that straddles exactly one edge of the plane comes out with
\* exactly one dimension reduced and exactly one coordinate changed, the other
\* coordinate and dimension being those of the candidate.
C11_OneCoordinateAsStated ==
    clipOut # Pending =>
        /\ CandInside => Emitted /\ Painted(clipOut) = << Rect(clipIn.x, clipIn.y, clipIn.width, clipIn.height) >>
        /\ StraddlesOneEdge =>
              /\ Emitted
              /\ \/ XMoved /\ WidthReduced /\ ~YMoved /\ HeightKept
                 \/ YMoved /\ HeightReduced /\ ~XMoved /\ WidthKept

\* C11, amended: a rectangle inside the plane is emitted unchanged, and what is
\* emitted is inside the plane, so that clipping it again emits it unchanged;
\* a rectangle that straddles exactly one edge comes out with exactly one
\* dimension reduced, the other dimension and the coordinate along the other
\* axis unchanged; the coordinate along the reduced axis moves to the plane's
\* edge when the edge is the left or the top one, and is unchanged when the
\* edge is the right or the bottom one.
C11_ClipOneEdge ==
    clipOut # Pending =>
        /\ CandInside => Emitted /\ Painted(clipOut) = << Rect(clipIn.x, clipIn.y, clipIn.width, clipIn.height) >>
        /\ Emitted =>
              /\ clipIn.xMin.n <= clipOut[2].x.n
              /\ clipOut[2].x.n + clipOut[2].width.n <= clipIn.xMax.n
              /\ clipIn.yMin.n <= clipOut[2].y.n
              /\ clipOut[2].y.n + clipOut[2].height.n <= clipIn.yMax.n
              /\ drawClippedRect(clipOut[2].x, clipOut[2].y, clipOut[2].width, clipOut[2].height,
                                 clipIn.xMin, clipIn.yMin, clipIn.xMax, clipIn.yMax) = clipOut
              /\ rognage(clipOut[2].x, clipOut[2].y, clipOut[2].width, clipOut[2].height,
                         clipIn.xMin, clipIn.yMin, clipIn.xMax, clipIn.yMax) = clipOut
        /\ StraddlesOneEdge => Emitted
        /\ OnlyLeft => clipOut[2].x = clipIn.xMin /\ XMoved /\ WidthReduced /\ ~YMoved /\ HeightKept
        /\ OnlyRight => ~XMoved /\ WidthReduced /\ ~YMoved /\ HeightKept
        /\ OnlyTop => clipOut[2].y = clipIn.yMin /\ YMoved /\ HeightReduced /\ ~XMoved /\ WidthKept
        /\ OnlyBottom => ~YMoved /\ HeightReduced /\ ~XMoved /\ WidthKept

\* a rectangle over the right edge only has been clipped: narrower, not moved
C11_Witness ==
    /\ Emitted
    /\ OnlyRight
    /\ WidthReduced
    /\ ~XMoved

----------------------------------------------------------------------------
(* C12 *)

\* the candidates that the clipping keeps, in emission order
Kept == SelectSeq(cands, Meets)

\* C12: within one draw() that passes the input check, the calls on the
\* context are ordered: the surface is cleared, then the plane outline is
\* stroked exactly once, with line width 2, before any paver is painted; then
\* each painted rectangle has its path begun, its rect laid, a fill and then a
\* stroke of line width 1, before the next rectangle is started; for a valid
\* input the rectangles are the clipped kept candidates in emission order.
C12_PaintOrder ==
    (Drawn /\ DimsPositive) =>
        /\ Len(calls) = 2 + 4 * Len(Painted(calls))
        /\ calls[1].op = "clearRect"
        /\ calls[2].op = "strokeRect" /\ calls[2].lineWidth = 2
        /\ Len(Outlines(calls)) = 1
        /\ \A k \in 1..Len(Painted(calls)) :
              /\ calls[4 * k - 1].op = "beginPath"
              /\ calls[4 * k].op = "rect"
              /\ calls[4 * k + 1].op = "fill"
              /\ calls[4 * k + 2].op = "stroke" /\ calls[4 * k + 2].lineWidth = 1
        /\ ValidInput =>
              /\ Len(Painted(calls)) = Len(Kept)
              /\ \A k \in 1..Len(Kept) : Painted(calls)[k] = Cut(Kept[k])

\* a draw that painted several pavers after the outline, one of them trimmed
C12_Witness ==
    /\ ValidInput
    /\ Len(Painted(calls)) >= 3
    /\ Len(Painted(calls)) < Len(cands)
    /\ \E k \in 1..Len(Kept) : Kept[k] # Painted(calls)[k]

----------------------------------------------------------------------------
(* C13 *)

\* a rectangle of the context's coordinates, in device pixels
OnDevice(r) ==
    Rect(RMul(RInt(ctxScale), r.x), RMul(RInt(ctxScale), r.y),
         RMul(RInt(ctxScale), r.width), RMul(RInt(ctxScale), r.height))

\* the rectangle of a mark of the surface
MarkRect(m) == Rect(m.x, m.y, m.width, m.height)

\* C13: after any sequence of redraws of a mounted component (the mount, a
\* change of one of the five props, a resize of the window), the canvas has
\* the size and the transform of the last redraw, the calls are those that
\* draw() makes for the current props, and the bitmap holds the marks of these
\* calls and no other: nothing when an input is not positive, the outline
\* alone when the pattern is unknown, otherwise the outline followed by the
\* painted rectangles.
C13_SurfaceIsLastDraw ==
    Drawn =>
        /\ canvas = [width |-> containerRect.width * devicePixelRatio,
                     height |-> containerRect.height * devicePixelRatio]
        /\ ctxScale = devicePixelRatio
        /\ calls = draw(props, canvas).calls
        /\ ~DimsPositive => surface = <<>>
        /\ DimsPositive =>
              /\ Len(surface) = 1 + Len(Painted(calls))
              /\ surface[1].kind = "strokeRect"
              /\ MarkRect(surface[1]) = OnDevice(Outlines(calls)[1])
              /\ \A k \in 1..Len(Painted(calls)) :
                    /\ surface[k + 1].kind = "rect"
                    /\ MarkRect(surface[k + 1]) = OnDevice(Painted(calls)[k])
              /\ props.pattern = "diagonal" => Len(surface) = 1

\* a redraw with an input that is not positive has left a blank bitmap where
\* the redraw before it had painted
C13_Witness ==
    /\ phase = "mounted"
    /\ paintedBefore
    /\ ~DimsPositive
    /\ surface = <<>>

----------------------------------------------------------------------------
(* C14 *)

\* a mark of the surface lies within the backing store of the canvas
InBackingStore(m) ==
    /\ RGe(m.x, RInt(0)) /\ RLe(RAdd(m.x, m.width), RInt(canvas.width))
    /\ RGe(m.y, RInt(0)) /\ RLe(RAdd(m.y, m.height), RInt(canvas.height))

\* C14: for every valid input, every container size and every device pixel
\* ratio >= 1, the outline and the rectangles painted by draw(), taken under
\* the transform scale(dpr, dpr) that resizeCanvasAndDraw has put on the
\* context, lie within [0, canvas.width] x [0, canvas.height].
C14_PaintedInBackingStore ==
    ValidInput => \A m \in Range(surface) : InBackingStore(m)

----------------------------------------------------------------------------
(* C15 *)

\* two rectangles share a vertical edge along a segment of positive length
ShareEdge(r1, r2) ==
    /\ Right(r1) = r2.x
    /\ RLt(r1.y, Bottom(r2)) /\ RLt(r2.y, Bottom(r1))

\* C15: for every valid input and each pattern, no two rectangles painted in
\* one draw() overlap in positive area: their interiors are disjoint, and they
\* may share edges only. This covers the shifted and unshifted rows of the
\* staggered pattern and the tiles A and B of the same and of neighbouring
\* herringbone blocks.
C15_NoOverlap ==
    ValidInput =>
        \A i \in 1..Len(Painted(calls)) : \A j \in 1..Len(Painted(calls)) :
            i < j => ~Overlap(Painted(calls)[i], Painted(calls)[j])

\* a herringbone draw of at least 2 x 2 blocks, with two painted tiles side by
\* side on a common edge
C15_Witness ==
    /\ ValidInput
    /\ called = "drawHerringbone"
    /\ NbBlockX >= 2 /\ NbBlockY >= 2
    /\ Len(Painted(calls)) >= 6
    /\ \E i \in 1..Len(Painted(calls)) : \E j \in 1..Len(Painted(calls)) :
          ShareEdge(Painted(calls)[i], Painted(calls)[j])

----------------------------------------------------------------------------
(* C16 *)

\* the calls of the sub-algorithm in the last draw(): those after clearRect and
\* strokeRect
PatternCalls == SubSeq(calls, 3, Len(calls))

----------------------------------------------------------------------------
(* C17 *)

\* the props of the last draw with the pattern given as 'straight'
PropsStraight == [props EXCEPT !.pattern = "straight"]

\* C17: when the pattern prop is omitted, draw() makes exactly the calls that
\* it makes for the pattern 'straight' with the same other inputs, the same
\* outline and the same sequence of rectangles: drawStraight is called for
\* positive inputs, the unknown-pattern branch is not taken and nothing is
\* logged.
C17_OmittedPatternIsStraight ==
    (Drawn /\ props.pattern = Undefined) =>
        /\ ~warned
        /\ \E d \in {draw(PropsStraight, canvas)} :
              calls = d.calls /\ cands = d.cands /\ called = d.called
        /\ DimsPositive =>
              /\ called = "drawStraight"
              /\ Len(Outlines(calls)) = 1
        /\ ValidInput => Len(Painted(calls)) = NbX * NbY

\* a draw with the pattern omitted that painted the outline and several pavers
C17_Witness ==
    /\ ValidInput
    /\ props.pattern = Undefined
    /\ called = "drawStraight"
    /\ ~warned
    /\ Len(Outlines(calls)) = 1
    /\ Len(Painted(calls)) >= 4

====
